---- MODULE Spec2Model ----
(***************************************************************************)
(* Model of the health-data collector (getHealthData / fetchIssueDetails). *)
(*                                                                         *)
(* One run of the script is a sequential state machine: every `await` on   *)
(* the network is one step.  The upstream service (what the overview and   *)
(* the detail endpoint answer) is part of the state and is fixed when the  *)
(* run starts; the token exchange and the overview request may in addition *)
(* fail when they are issued.                                              *)
(*                                                                         *)
(* Conventions                                                             *)
(*   - an optional JavaScript value (null / undefined / absent field) is a *)
(*     sequence of length 0 or 1: None is absent, Some(x) is present;      *)
(*   - a timestamp is an integer number of seconds (the ISO strings of the *)
(*     API parsed by `new Date(...)`); timestamps that are present are     *)
(*     valid dates;                                                        *)
(*   - a text is a sequence of tokens: a section label (any letter case,   *)
(*     the patterns are /i), a run of whitespace, or a word;               *)
(*   - incident ids are unique within one overview, and the detail         *)
(*     endpoint answers for incident `id` with the record of that id and   *)
(*     of the status the overview showed; lastModifiedDateTime is always   *)
(*     present, endDateTime may be absent, and the two records of one      *)
(*     incident may show different times;                                  *)
(*   - pass-through fields that no decision reads (title, startDateTime,   *)
(*     classification, feature, isResolved) are left out; postType, an    *)
(*     opaque tag, is kept so that two updates stay distinguishable;       *)
(*   - writing data.json succeeds.                                         *)
(***************************************************************************)
EXTENDS Integers, Sequences, FiniteSets, TLC

VARIABLES
    env,              \* process.env: which of the three credentials are set
    tzShift,          \* local UTC offset now minus the offset 30 calendar days ago
    upstreamOverview, \* what the healthOverviews endpoint holds
    upstreamDetail,   \* id -> None (the lookup fails) or Some(detail record)
    pc,               \* position of getHealthData
    exitCode,         \* None while running or after a normal end, Some(1) after process.exit(1)
    value,            \* healthResponse.data.value
    thirtyDaysAgo,    \* None before it is computed
    si,               \* index of `item` in value
    phase,            \* which inner loop runs for `item`
    k,                \* index in the inner loop's list
    issuesWithPosts,
    services,
    recentHistory,
    data,             \* None, or Some(document written to data.json)
    tokenCalls,       \* requests sent to the token endpoint
    overviewCalls,    \* requests sent to the overview endpoint
    lookups,          \* id -> number of detail requests sent for it
    writes            \* number of writeFileSync calls

vars == <<env, tzShift, upstreamOverview, upstreamDetail, pc, exitCode, value,
          thirtyDaysAgo, si, phase, k, issuesWithPosts, services, recentHistory,
          data, tokenCalls, overviewCalls, lookups, writes>>

None == <<>>
Some(x) == <<x>>
IsSome(o) == Len(o) > 0
Get(o) == o[1]

(***************************************************************************)
(* Program constants.                                                      *)
(***************************************************************************)
ACTIVE_STATUSES_NoExtended ==
    {"investigating", "serviceInterruption", "serviceDegradation"}

ACTIVE_STATUSES_WithSuspended ==
    {"investigating", "serviceInterruption", "serviceDegradation", "extendedRecovery",
     "investigationSuspended"}

ACTIVE_STATUSES ==
    {"investigating", "serviceInterruption", "serviceDegradation", "extendedRecovery"}

RESOLVED_STATUSES ==
    {"serviceRestored", "postIncidentReviewPublished", "resolved"}

WindowDays == 30
HistoryLimit == 50
HistoryPostLimit == 5

DaySeconds == 24 * 60 * 60
HourSeconds == 60 * 60
Now == 40 * DaySeconds

(***************************************************************************)
(* Sequences.                                                              *)
(***************************************************************************)
Min(a, b) == IF a < b THEN a ELSE b

\* Array.prototype.slice(0, n)
Slice(s, n) == SubSeq(s, 1, Min(n, Len(s)))

\* Array.prototype.sort((a, b) => key(b) - key(a)), key[i] being the key of
\* s[i]: descending by key, and stable (the script uses `?.`, so it runs on an
\* engine whose sort is stable): an element is placed after every element
\* already placed whose key is not smaller.
SortDesc(s, key) ==
    LET RECURSIVE Insert(_, _)
        Insert(sorted, i) ==
            IF sorted = <<>> THEN <<i>>
            ELSE IF key[sorted[1]] >= key[i]
                 THEN <<sorted[1]>> \o Insert(Tail(sorted), i)
                 ELSE <<i>> \o sorted
        RECURSIVE From(_, _)
        From(i, acc) ==
            IF i > Len(s) THEN acc ELSE From(i + 1, Insert(acc, i))
        order == From(1, <<>>)
    IN  [j \in 1..Len(s) |-> s[order[j]]]

(***************************************************************************)
(* Text Extractor: the three regular expressions of fetchIssueDetails.     *)
(***************************************************************************)
WS == " "
ScopeLabel == "Scope of impact:"
RootLabel == "Root cause:"
UserLabel == "User impact:"
NextLabel == "Next update by:"
FinalLabel == "Final status:"
CurrentLabel == "Current status:"
MoreLabel == "More info:"

ScopeStops == {RootLabel, NextLabel, FinalLabel}
RootStops == {NextLabel, FinalLabel, ScopeLabel}
UserStops == {CurrentLabel, MoreLabel}

\* first position >= i of text holding a token of `tokens`, Len(text) + 1 if none
RECURSIVE FirstOf(_, _, _)
FirstOf(text, i, tokens) ==
    IF i > Len(text) THEN Len(text) + 1
    ELSE IF text[i] \in tokens THEN i
    ELSE FirstOf(text, i + 1, tokens)

\* \s* (greedy): first position >= i that holds no whitespace
RECURSIVE SkipWs(_, _)
SkipWs(text, i) ==
    IF i <= Len(text) /\ text[i] = WS THEN SkipWs(text, i + 1) ELSE i

\* String.prototype.trim
RECURSIVE TrimRight(_)
TrimRight(text) ==
    IF text # <<>> /\ text[Len(text)] = WS
    THEN TrimRight(SubSeq(text, 1, Len(text) - 1))
    ELSE text

Trim(text) == TrimRight(SubSeq(text, SkipWs(text, 1), Len(text)))

\* content.match(/<label>\s*([^]*?)(?=<stops>|$)/i): None when the label does
\* not occur, else Some(group 1): the text after the first occurrence of the
\* label and the whitespace following it, up to the first stop label or the end.
Match(content, label, stops) ==
    LET p == FirstOf(content, 1, {label})
    IN  IF p > Len(content) THEN None
        ELSE LET s == SkipWs(content, p + 1)
                 e == FirstOf(content, s, stops)
             IN  Some(SubSeq(content, s, e - 1))

(***************************************************************************)
(* fetchIssueDetails, after the response has arrived.                      *)
(***************************************************************************)
\* post.description?.content || ''
PostContent(post) ==
    IF IsSome(post.description) THEN Get(post.description) ELSE <<>>

LatestPost_First(posts) == posts[1]

\* fullIssue.posts[fullIssue.posts.length - 1]
LatestPost(posts) == posts[Len(posts)]

\* the text the three patterns are matched against; None when there is no post
LatestContent(fullIssue) ==
    IF Len(fullIssue.posts) > 0
    THEN Some(PostContent(LatestPost(fullIssue.posts)))
    ELSE None

ExtractField(fullIssue, label, stops) ==
    LET c == LatestContent(fullIssue)
        m == IF IsSome(c) THEN Match(Get(c), label, stops) ELSE None
    IN  IF IsSome(m) THEN Trim(Get(m)) ELSE <<>>

UserImpact_PreferExtracted(fullIssue) ==
    LET explicit == IF IsSome(fullIssue.impactDescription)
                    THEN Get(fullIssue.impactDescription) ELSE <<>>
        c == IF Len(fullIssue.posts) > 0
             THEN Some(PostContent(fullIssue.posts[Len(fullIssue.posts)])) ELSE None
        m == IF IsSome(c) THEN Match(Get(c), UserLabel, UserStops) ELSE None
    IN  IF IsSome(m) THEN Trim(Get(m)) ELSE explicit

\* let userImpact = fullIssue.impactDescription || '';
\* if (impactMatch && !userImpact) userImpact = impactMatch[1].trim();
UserImpact(fullIssue) ==
    LET explicit == IF IsSome(fullIssue.impactDescription)
                    THEN Get(fullIssue.impactDescription) ELSE <<>>
        c == LatestContent(fullIssue)
        m == IF IsSome(c) THEN Match(Get(c), UserLabel, UserStops) ELSE None
    IN  IF IsSome(m) /\ explicit = <<>> THEN Trim(Get(m)) ELSE explicit

NormalizePost(post) ==
    [createdAt |-> post.createdDateTime, postType |-> post.postType,
     content |-> PostContent(post)]

\* (fullIssue.posts || []).map(post => ({...}))
MapPosts(posts) == [i \in 1..Len(posts) |-> NormalizePost(posts[i])]

SortPosts_Unsorted(posts) == MapPosts(posts)

\* (fullIssue.posts || []).map(...).sort((a, b) => new Date(b.createdAt) - new Date(a.createdAt))
\* (an absent posts field and an empty list are both <<>>)
SortPosts(posts) ==
    SortDesc(MapPosts(posts), [i \in 1..Len(posts) |-> MapPosts(posts)[i].createdAt])

LimitPosts_Always(posts, isHistory) == Slice(posts, HistoryPostLimit)

\* isHistory ? posts.slice(0, 5) : posts
LimitPosts(posts, isHistory) ==
    IF isHistory THEN Slice(posts, HistoryPostLimit) ELSE posts

BuildResult(fullIssue, isHistory) ==
    [id            |-> fullIssue.id,
     endTime       |-> fullIssue.endDateTime,
     lastModified  |-> fullIssue.lastModifiedDateTime,
     status        |-> fullIssue.status,
     userImpact    |-> UserImpact(fullIssue),
     scopeOfImpact |-> ExtractField(fullIssue, ScopeLabel, ScopeStops),
     rootCause     |-> ExtractField(fullIssue, RootLabel, RootStops),
     posts         |-> LimitPosts(SortPosts(fullIssue.posts), isHistory)]

\* the value fetchIssueDetails returns for a response: null when the request
\* failed (the catch block), else the result record
fetchIssueDetails(response, isHistory) ==
    IF IsSome(response) THEN Some(BuildResult(Get(response), isHistory)) ELSE None

(***************************************************************************)
(* Incident Classifier: the two filters of getHealthData.                  *)
(***************************************************************************)
\* const thirtyDaysAgo = new Date(); thirtyDaysAgo.setDate(thirtyDaysAgo.getDate() - 30);
\* setDate works on the local calendar: the result is the same wall-clock time
\* 30 calendar days earlier, which is 30 * 24 hours earlier plus the change of
\* the local UTC offset between the two instants.
ThirtyDaysAgo(now, shift) == now - WindowDays * DaySeconds + shift

\* issue.endDateTime ? new Date(issue.endDateTime) : new Date(issue.lastModifiedDateTime)
EndDate(issue) ==
    IF IsSome(issue.endDateTime) THEN Get(issue.endDateTime)
    ELSE issue.lastModifiedDateTime

IsActive(issue) == issue.status \in ACTIVE_STATUSES

IsRecentlyResolved_Strict(issue, threshold) ==
    /\ issue.status \in RESOLVED_STATUSES
    /\ EndDate(issue) > threshold

IsRecentlyResolved(issue, threshold) ==
    /\ issue.status \in RESOLVED_STATUSES
    /\ EndDate(issue) >= threshold

activeIssues(item) == SelectSeq(item.issues, IsActive)

resolvedIssues(item, threshold) ==
    SelectSeq(item.issues, LAMBDA issue : IsRecentlyResolved(issue, threshold))

(***************************************************************************)
(* Health Snapshot Builder: getHealthData.                                 *)
(***************************************************************************)
MissingEnv_TenantOnly(e) == ~e.tenantId

\* !tenantId || !clientId || !clientSecret
MissingEnv(e) == ~e.tenantId \/ ~e.clientId \/ ~e.clientSecret

\* what the first collector (collect.js, lines 98-107) did: a stub on failure
PushActive_Stub(list, fullIssue, issue) ==
    IF IsSome(fullIssue) THEN Append(list, Get(fullIssue))
    ELSE Append(list, [id |-> issue.id, status |-> issue.status, posts |-> <<>>])

\* issuesWithPosts after the pass for `issue`:
\* if (fullIssue) issuesWithPosts.push(fullIssue);
PushActive(list, fullIssue, issue) ==
    IF IsSome(fullIssue) THEN Append(list, Get(fullIssue)) ELSE list

\* if (fullIssue) { fullIssue.serviceName = item.service; recentHistory.push(fullIssue); }
PushHistory(list, fullIssue, item) ==
    IF IsSome(fullIssue)
    THEN Append(list, [id            |-> Get(fullIssue).id,
                       endTime       |-> Get(fullIssue).endTime,
                       lastModified  |-> Get(fullIssue).lastModified,
                       status        |-> Get(fullIssue).status,
                       userImpact    |-> Get(fullIssue).userImpact,
                       scopeOfImpact |-> Get(fullIssue).scopeOfImpact,
                       rootCause     |-> Get(fullIssue).rootCause,
                       posts         |-> Get(fullIssue).posts,
                       serviceName   |-> item.service])
    ELSE list

\* new Date(a.endTime || a.lastModified)
HistoryDate(a) == IF IsSome(a.endTime) THEN Get(a.endTime) ELSE a.lastModified

SortHistory_Omitted(list) == list

\* recentHistory.sort((a, b) => dateB - dateA)
SortHistory(list) == SortDesc(list, [i \in 1..Len(list) |-> HistoryDate(list[i])])

\* recentHistory.slice(0, 50)
LimitHistory(list) == Slice(list, HistoryLimit)

\* the index the inner loops move to after one issue
NextIssue(i) == i + 1

Fatal ==
    /\ pc' = "exit"
    /\ exitCode' = Some(1)

\* lines 25-28: a credential is missing
ConfigError ==
    /\ pc = "start"
    /\ MissingEnv(env)
    /\ Fatal
    /\ UNCHANGED <<env, tzShift, upstreamOverview, upstreamDetail, value,
                   thirtyDaysAgo, si, phase, k, issuesWithPosts, services,
                   recentHistory, data, tokenCalls, overviewCalls, lookups, writes>>

\* lines 25-32: the credentials are there, the token request is sent
RequestToken ==
    /\ pc = "start"
    /\ ~MissingEnv(env)
    /\ pc' = "token"
    /\ tokenCalls' = tokenCalls + 1
    /\ UNCHANGED <<env, tzShift, upstreamOverview, upstreamDetail, exitCode, value,
                   thirtyDaysAgo, si, phase, k, issuesWithPosts, services,
                   recentHistory, data, overviewCalls, lookups, writes>>

\* lines 32-47: the token arrives, the overview request is sent
TokenOk ==
    /\ pc = "token"
    /\ pc' = "overview"
    /\ overviewCalls' = overviewCalls + 1
    /\ UNCHANGED <<env, tzShift, upstreamOverview, upstreamDetail, exitCode, value,
                   thirtyDaysAgo, si, phase, k, issuesWithPosts, services,
                   recentHistory, data, tokenCalls, lookups, writes>>

\* lines 32, 111-114: the token exchange fails
TokenFail ==
    /\ pc = "token"
    /\ Fatal
    /\ UNCHANGED <<env, tzShift, upstreamOverview, upstreamDetail, value,
                   thirtyDaysAgo, si, phase, k, issuesWithPosts, services,
                   recentHistory, data, tokenCalls, overviewCalls, lookups, writes>>

\* lines 47-57: the overview arrives
OverviewOk ==
    /\ pc = "overview"
    /\ value' = upstreamOverview
    /\ thirtyDaysAgo' = Some(ThirtyDaysAgo(Now, tzShift))
    /\ pc' = "loop"
    /\ UNCHANGED <<env, tzShift, upstreamOverview, upstreamDetail, exitCode,
                   si, phase, k, issuesWithPosts, services,
                   recentHistory, data, tokenCalls, overviewCalls, lookups, writes>>

\* lines 47, 111-114: the overview request fails
OverviewFail ==
    /\ pc = "overview"
    /\ Fatal
    /\ UNCHANGED <<env, tzShift, upstreamOverview, upstreamDetail, value,
                   thirtyDaysAgo, si, phase, k, issuesWithPosts, services,
                   recentHistory, data, tokenCalls, overviewCalls, lookups, writes>>

InService == pc = "loop" /\ si <= Len(value)

\* lines 72-75: one pass of the loop over activeIssues
LookupActive ==
    /\ InService
    /\ phase = "active"
    /\ k <= Len(activeIssues(value[si]))
    /\ LET issue == activeIssues(value[si])[k]
           fullIssue == fetchIssueDetails(upstreamDetail[issue.id], FALSE)
       IN  /\ lookups' = [lookups EXCEPT ![issue.id] = @ + 1]
           /\ issuesWithPosts' = PushActive(issuesWithPosts, fullIssue, issue)
    /\ k' = NextIssue(k)
    /\ UNCHANGED <<env, tzShift, upstreamOverview, upstreamDetail, pc, exitCode, value,
                   thirtyDaysAgo, si, phase, services,
                   recentHistory, data, tokenCalls, overviewCalls, writes>>

\* lines 75-78: the loop over activeIssues ends, the loop over resolvedIssues begins
ActiveDone ==
    /\ InService
    /\ phase = "active"
    /\ k > Len(activeIssues(value[si]))
    /\ phase' = "resolved"
    /\ k' = 1
    /\ UNCHANGED <<env, tzShift, upstreamOverview, upstreamDetail, pc, exitCode, value,
                   thirtyDaysAgo, si, issuesWithPosts, services,
                   recentHistory, data, tokenCalls, overviewCalls, lookups, writes>>

\* lines 78-84: one pass of the loop over resolvedIssues
LookupResolved ==
    /\ InService
    /\ phase = "resolved"
    /\ k <= Len(resolvedIssues(value[si], Get(thirtyDaysAgo)))
    /\ LET issue == resolvedIssues(value[si], Get(thirtyDaysAgo))[k]
           fullIssue == fetchIssueDetails(upstreamDetail[issue.id], TRUE)
       IN  /\ lookups' = [lookups EXCEPT ![issue.id] = @ + 1]
           /\ recentHistory' = PushHistory(recentHistory, fullIssue, value[si])
    /\ k' = NextIssue(k)
    /\ UNCHANGED <<env, tzShift, upstreamOverview, upstreamDetail, pc, exitCode, value,
                   thirtyDaysAgo, si, phase, issuesWithPosts, services,
                   data, tokenCalls, overviewCalls, writes>>

\* lines 84-92, 57-69: services.push(...), then the next item
PushService ==
    /\ InService
    /\ phase = "resolved"
    /\ k > Len(resolvedIssues(value[si], Get(thirtyDaysAgo)))
    /\ services' = Append(services, [service |-> value[si].service,
                                     status  |-> value[si].status,
                                     id      |-> value[si].id,
                                     issues  |-> issuesWithPosts])
    /\ issuesWithPosts' = <<>>
    /\ si' = si + 1
    /\ phase' = "active"
    /\ k' = 1
    /\ UNCHANGED <<env, tzShift, upstreamOverview, upstreamDetail, pc, exitCode, value,
                   thirtyDaysAgo, recentHistory, data, tokenCalls, overviewCalls,
                   lookups, writes>>

\* lines 94-109: sort, cap, write data.json; the process then ends normally
WriteSnapshot ==
    /\ pc = "loop"
    /\ si > Len(value)
    /\ recentHistory' = SortHistory(recentHistory)
    /\ data' = Some([lastUpdated |-> Now,
                     services    |-> services,
                     history     |-> LimitHistory(recentHistory')])
    /\ writes' = writes + 1
    /\ pc' = "done"
    /\ exitCode' = Some(0)
    /\ UNCHANGED <<env, tzShift, upstreamOverview, upstreamDetail, value,
                   thirtyDaysAgo, si, phase, k, issuesWithPosts, services,
                   tokenCalls, overviewCalls, lookups>>

Next ==
    \/ ConfigError
    \/ RequestToken
    \/ TokenOk
    \/ TokenFail
    \/ OverviewOk
    \/ OverviewFail
    \/ LookupActive
    \/ ActiveDone
    \/ LookupResolved
    \/ PushService
    \/ WriteSnapshot

(***************************************************************************)
(* The upstream service and the environment a run starts in.               *)
(***************************************************************************)
MaxServices == 2
MaxIncidents == 2

RECURSIVE SumTo(_, _)
SumTo(c, n) == IF n = 0 THEN 0 ELSE c[n] + SumTo(c, n - 1)

\* An upstream is described by the incidents in overview order (`flat`), each
\* with the summary the overview shows and the answer of the detail endpoint,
\* and by the number of incidents of each service (`counts`).  The id of an
\* incident is its position in `flat`.
Offset(counts, s) == SumTo(counts, s - 1)

OverviewIssue(p, id) ==
    [id |-> id, status |-> p.status, endDateTime |-> p.endDateTime,
     lastModifiedDateTime |-> p.lastModifiedDateTime]

DetailRecord(p, id) ==
    [id |-> id, status |-> p.status,
     endDateTime |-> Get(p.response).endDateTime,
     lastModifiedDateTime |-> Get(p.response).lastModifiedDateTime,
     impactDescription |-> Get(p.response).impactDescription,
     posts |-> Get(p.response).posts]

OverviewOf(w) ==
    [s \in 1..Len(w.counts) |->
        [service |-> s, status |-> "serviceOperational", id |-> s,
         issues |-> [i \in 1..w.counts[s] |->
                        OverviewIssue(w.flat[Offset(w.counts, s) + i],
                                      Offset(w.counts, s) + i)]]]

DetailOf(w) ==
    [id \in 1..Len(w.flat) |->
        IF IsSome(w.flat[id].response)
        THEN Some(DetailRecord(w.flat[id], id)) ELSE None]

Envs == [tenantId : BOOLEAN, clientId : BOOLEAN, clientSecret : BOOLEAN]

EmptyWorld == [flat |-> <<>>, counts |-> <<>>]

\* the state a run starts in, given the upstream and the time-zone shift
Start(w, shift) ==
    /\ tzShift = shift
    /\ upstreamOverview = OverviewOf(w)
    /\ upstreamDetail = DetailOf(w)
    /\ lookups = [id \in 1..Len(w.flat) |-> 0]
    /\ pc = "start"
    /\ exitCode = None
    /\ value = <<>>
    /\ thirtyDaysAgo = None
    /\ si = 1
    /\ phase = "active"
    /\ k = 1
    /\ issuesWithPosts = <<>>
    /\ services = <<>>
    /\ recentHistory = <<>>
    /\ data = None
    /\ tokenCalls = 0
    /\ overviewCalls = 0
    /\ writes = 0

AllSet == [tenantId |-> TRUE, clientId |-> TRUE, clientSecret |-> TRUE]

\* a run lacking a credential, whatever the upstream holds
InitMissing ==
    /\ env \in Envs \ {AllSet}
    /\ Start(EmptyWorld, 0)

\* --- the statuses: every status the filters name, the paused one, one other
Statuses ==
    {"investigating", "serviceInterruption", "serviceDegradation", "extendedRecovery",
     "investigationSuspended", "falsePositive",
     "serviceRestored", "postIncidentReviewPublished", "resolved"}

Word1 == "w1"
Word2 == "w2"

PlainAnswer(end, lm) ==
    [endDateTime |-> end, lastModifiedDateTime |-> lm, impactDescription |-> None,
     posts |-> <<[createdDateTime |-> 1, postType |-> 1,
                  description |-> Some(<<ScopeLabel, WS, Word1>>)]>>]

StatusProtos ==
    {[status |-> st, endDateTime |-> None, lastModifiedDateTime |-> Now - DaySeconds,
      response |-> r] :
        st \in Statuses, r \in {None, Some(PlainAnswer(None, Now - DaySeconds))}}

\* a run lacking a credential, or a run with all credentials over an upstream
\* of at most MaxIncidents incidents in at most MaxServices services
Init ==
    \/ InitMissing
    \/ /\ env = AllSet
       /\ \E len \in 0..MaxIncidents : \E f \in [1..len -> StatusProtos] :
          \E m \in 0..MaxServices : \E c \in [1..m -> 0..len] :
             /\ SumTo(c, m) = len
             /\ Start([flat |-> f, counts |-> c], 0)

Spec == Init /\ [][Next]_vars

\* The runs the termination property is checked on: up to MaxIncidents
\* incidents, all of one service or each of a service of its own; an active
\* incident whose lookup succeeds or fails, a recently resolved one, a paused one.
LiveProtos ==
    {[status |-> p[1], endDateTime |-> None, lastModifiedDateTime |-> Now - DaySeconds,
      response |-> p[2]] :
        p \in {<<"investigating", Some(PlainAnswer(None, Now - DaySeconds))>>,
               <<"serviceDegradation", None>>,
               <<"serviceRestored", Some(PlainAnswer(None, Now - DaySeconds))>>,
               <<"investigationSuspended", Some(PlainAnswer(None, Now - DaySeconds))>>}}

InitLive ==
    \/ InitMissing
    \/ /\ env = AllSet
       /\ \E len \in 0..MaxIncidents : \E f \in [1..len -> LiveProtos] :
          \E c \in {<<len>>, [s \in 1..len |-> 1]} :
             Start([flat |-> f, counts |-> c], 0)

\* the script is the only process and every request it awaits is answered or
\* fails: each of its steps is eventually taken
LiveSpec == InitLive /\ [][Next]_vars /\ WF_vars(Next)

\* --- the window: resolved incidents whose times lie on either side of the
\* cutoff the run computes (Cutoff) and at 30 * 24 hours before now; the local
\* UTC offset may have moved by an hour either way within the 30 days.
Shifts == <<0, HourSeconds, 0 - HourSeconds>>

Cutoff(shift) == Now - 30 * DaySeconds + shift

WindowTimes(shift) ==
    {<<None, Cutoff(shift) - 1>>, <<None, Cutoff(shift)>>,
     <<Some(Cutoff(shift) - 1), Now>>, <<Some(Cutoff(shift)), Cutoff(shift) - 1>>,
     <<None, Now - 30 * DaySeconds>>}

WindowCases(shift) ==
    ({"serviceRestored", "postIncidentReviewPublished", "resolved"}
        \X {<<None, Cutoff(shift) - 1>>, <<None, Cutoff(shift)>>})
    \cup ({"resolved"} \X WindowTimes(shift))
    \cup ({"falsePositive", "investigating"} \X {<<None, Now>>})

WindowProtos(shift) ==
    {[status |-> c[1], endDateTime |-> c[2][1], lastModifiedDateTime |-> c[2][2],
      response |-> Some(PlainAnswer(c[2][1], c[2][2]))] : c \in WindowCases(shift)}
    \cup
    {[status |-> st, endDateTime |-> None, lastModifiedDateTime |-> Cutoff(shift),
      response |-> None] : st \in {"serviceRestored", "postIncidentReviewPublished", "resolved"}}

InitWindow ==
    \/ InitMissing
    \/ /\ env = AllSet
       /\ \E n \in 1..Len(Shifts) :
          \E len \in 0..MaxIncidents : \E f \in [1..len -> WindowProtos(Shifts[n])] :
          \E c \in {<<len>>, [s \in 1..len |-> 1]} :
             Start([flat |-> f, counts |-> c], Shifts[n])

SpecWindow == InitWindow /\ [][Next]_vars

\* --- the history cap: up to MaxResolved incidents, all recently resolved but
\* the second, which is active, in one service or with the first in a service
\* of its own; the detail records' end times rise, fall, repeat, or are partly
\* absent; some lookups fail.
MaxResolved == 55

Patterns == {"rising", "falling", "repeating", "partial"}

BigEnd(id, pattern) ==
    CASE pattern = "rising"    -> Some(Now - DaySeconds + id)
      [] pattern = "falling"   -> Some(Now - id)
      [] pattern = "repeating" -> Some(Now - (id % 3))
      [] pattern = "partial"   -> IF id % 2 = 0 THEN None ELSE Some(Now - 5 * (id % 4))

BigModified(id, pattern) ==
    IF pattern = "partial" THEN Now - 7 * (id % 5) ELSE Now

\* failEvery = 0: no lookup fails; else the lookups of ids 1, 1 + failEvery, ... fail
BigProto(id, pattern, failEvery) ==
    [status |-> IF id = 2 THEN "investigating"
                ELSE IF id % 2 = 0 THEN "resolved" ELSE "serviceRestored",
     endDateTime |-> None, lastModifiedDateTime |-> Now,
     response |-> IF failEvery > 0 /\ id % failEvery = 1 THEN None
                  ELSE Some(PlainAnswer(BigEnd(id, pattern), BigModified(id, pattern)))]

InitHistory ==
    \/ InitMissing
    \/ /\ env = AllSet
       /\ \E len \in (MaxResolved - 3)..MaxResolved :
          \E pattern \in Patterns : \E failEvery \in {0, 25, 50} :
          \E c \in {<<len>>, <<1, len - 1>>} :
             Start([flat |-> [id \in 1..len |-> BigProto(id, pattern, failEvery)],
                    counts |-> c], 0)

SpecHistory == InitHistory /\ [][Next]_vars

\* --- enrichment: one incident, active or recently resolved, whose detail
\* record is (a) up to MaxTextPosts updates with labelled texts, (b) one
\* update holding any text of up to MaxTokens tokens, or (c) up to MaxPosts
\* updates with creation times in PostTimes.  The postType of an update is
\* its upstream position.
MaxTextPosts == 2
MaxTokens == 3
MaxPosts == 6

PostTimes == {1, 2, 3}

Alphabet ==
    {ScopeLabel, RootLabel, UserLabel, NextLabel, FinalLabel, CurrentLabel, MoreLabel,
     WS, Word1}

Impacts == {None, Some(<<>>), Some(<<Word2>>)}

LabelledTexts ==
    {None,
     Some(<<ScopeLabel, WS, Word1, WS, RootLabel, Word2>>),
     Some(<<UserLabel, Word1, WS, CurrentLabel, Word2>>)}

Tagged(posts) ==
    [i \in 1..Len(posts) |->
        [createdDateTime |-> posts[i][1], postType |-> i, description |-> posts[i][2]]]

Answer(impact, posts) ==
    [endDateTime |-> None, lastModifiedDateTime |-> Now - DaySeconds,
     impactDescription |-> impact, posts |-> Tagged(posts)]

EnrichProto(status, answer) ==
    [status |-> status, endDateTime |-> None, lastModifiedDateTime |-> Now - DaySeconds,
     response |-> Some(answer)]

OneIncident(status, answer) ==
    Start([flat |-> <<EnrichProto(status, answer)>>, counts |-> <<1>>], 0)

InitEnrich ==
    \/ InitMissing
    \/ /\ env = AllSet
       /\ \/ \E st \in {"investigating", "resolved"} : \E impact \in Impacts :
             \E len \in 0..MaxTextPosts : \E ps \in [1..len -> {1, 2} \X LabelledTexts] :
                OneIncident(st, Answer(impact, ps))
          \/ \E impact \in Impacts :
             \E len \in 0..MaxTokens : \E text \in [1..len -> Alphabet] :
                OneIncident("investigating", Answer(impact, <<<<1, Some(text)>>>>))
          \/ \E st \in {"investigating", "resolved"} :
             \E len \in 0..MaxPosts : \E ts \in [1..len -> PostTimes] :
                OneIncident(st, Answer(None, [i \in 1..len |-> <<ts[i], None>>]))

SpecEnrich == InitEnrich /\ [][Next]_vars

(***************************************************************************)
(* Vocabulary of the properties, stated on the upstream and the document.  *)
(***************************************************************************)
InProgress == {"investigating", "serviceInterruption", "serviceDegradation", "extendedRecovery"}
Paused == "investigationSuspended"
Terminal == {"serviceRestored", "postIncidentReviewPublished", "resolved"}

ServiceIdx == 1..Len(upstreamOverview)
IssueIdx(s) == 1..Len(upstreamOverview[s].issues)
Incident(s, i) == upstreamOverview[s].issues[i]

Written == pc = "done" /\ IsSome(data)
Snapshot == Get(data)

LookupOk(id) == IsSome(upstreamDetail[id])

\* end time if present, else last-modified time, of an overview incident
EffectiveEnd(inc) ==
    IF inc.endDateTime # None THEN inc.endDateTime[1] ELSE inc.lastModifiedDateTime

\* the classes of section 4.1, with the window measured from `from`
IsActiveClass(inc) == inc.status \in InProgress
IsRecentClass(inc, from) == inc.status \in Terminal /\ EffectiveEnd(inc) >= from
Selected(inc, from) == IsActiveClass(inc) \/ IsRecentClass(inc, from)

InIssues(s, id) ==
    /\ s <= Len(Snapshot.services)
    /\ \E j \in 1..Len(Snapshot.services[s].issues) : Snapshot.services[s].issues[j].id = id

InAnyIssues(id) == \E s \in 1..Len(Snapshot.services) : InIssues(s, id)

InHistory(id) == \E j \in 1..Len(Snapshot.history) : Snapshot.history[j].id = id

NoLookupSent == \A id \in DOMAIN lookups : lookups[id] = 0

(***************************************************************************)
(* C1                                                                      *)
(***************************************************************************)
\* C1 as stated: in every written snapshot each incident with an active
\* status is in its service's issues list whatever the lookups returned, and
\* no paused incident is in any issues list.
C1_AsStated ==
    Written =>
        \A s \in ServiceIdx : \A i \in IssueIdx(s) :
            /\ Incident(s, i).status \in InProgress => InIssues(s, Incident(s, i).id)
            /\ Incident(s, i).status = Paused => ~InAnyIssues(Incident(s, i).id)

\* C1 amended: in every written snapshot each incident with an active status
\* whose detail lookup succeeded is in its service's issues list, and no
\* paused incident is in any issues list.
C1_ActiveListed ==
    Written =>
        \A s \in ServiceIdx : \A i \in IssueIdx(s) :
            /\ (Incident(s, i).status \in InProgress /\ LookupOk(Incident(s, i).id))
                  => InIssues(s, Incident(s, i).id)
            /\ Incident(s, i).status = Paused => ~InAnyIssues(Incident(s, i).id)

C1_Witness ==
    /\ Written
    /\ \E s \in ServiceIdx : \E i, j \in IssueIdx(s) :
          /\ Incident(s, i).status \in InProgress
          /\ LookupOk(Incident(s, i).id)
          /\ InIssues(s, Incident(s, i).id)
          /\ Incident(s, j).status = Paused

(***************************************************************************)
(* C6                                                                      *)
(***************************************************************************)
\* the records the issues list of service s holds when no lookup fails,
\* less those whose lookup failed
ExpectedIssues(s) ==
    LET ok == SelectSeq(upstreamOverview[s].issues,
                        LAMBDA inc : IsActiveClass(inc) /\ LookupOk(inc.id))
    IN  [j \in 1..Len(ok) |-> BuildResult(Get(upstreamDetail[ok[j].id]), FALSE)]

ExpectedHistoryIds(from) ==
    {Incident(s, i).id : <<s, i>> \in
        {<<s, i>> \in UNION {{<<s, i>> : i \in IssueIdx(s)} : s \in ServiceIdx} :
            IsRecentClass(Incident(s, i), from) /\ LookupOk(Incident(s, i).id)}}

HistoryIds == {Snapshot.history[j].id : j \in 1..Len(Snapshot.history)}

\* C6: a failed detail lookup never ends the run (a fatal exit happens only
\* before any lookup was sent); in the written snapshot every selected
\* incident was looked up, an incident whose lookup failed is in no issues
\* list and not in history, no record is a stub, and the incidents whose
\* lookup succeeded are there as they are when nothing fails (history up to
\* its cap of 50).
C6_SkipOnFailure ==
    /\ pc = "exit" => NoLookupSent
    /\ Written =>
        /\ \A s \in ServiceIdx : \A i \in IssueIdx(s) :
              LET inc == Incident(s, i) IN
              /\ Selected(inc, Now - 30 * DaySeconds + tzShift) => lookups[inc.id] = 1
              /\ ~LookupOk(inc.id) => ~InAnyIssues(inc.id) /\ ~InHistory(inc.id)
        /\ Len(Snapshot.services) = Len(upstreamOverview)
        /\ \A s \in ServiceIdx : Snapshot.services[s].issues = ExpectedIssues(s)
        /\ HistoryIds \subseteq ExpectedHistoryIds(Now - 30 * DaySeconds + tzShift)
        /\ Cardinality(ExpectedHistoryIds(Now - 30 * DaySeconds + tzShift)) <= 50
              => /\ HistoryIds = ExpectedHistoryIds(Now - 30 * DaySeconds + tzShift)
                 /\ Len(Snapshot.history) = Cardinality(HistoryIds)
        /\ \A j \in 1..Len(Snapshot.history) :
              LET h == Snapshot.history[j]
                  r == BuildResult(Get(upstreamDetail[h.id]), TRUE)
              IN  /\ LookupOk(h.id)
                  /\ h.posts = r.posts /\ h.userImpact = r.userImpact
                  /\ h.scopeOfImpact = r.scopeOfImpact /\ h.rootCause = r.rootCause
                  /\ h.endTime = r.endTime /\ h.lastModified = r.lastModified

\* a selected incident's lookup failed and a later one, active, is listed
C6_Witness ==
    /\ Written
    /\ \E s, t \in ServiceIdx : \E i \in IssueIdx(s), j \in IssueIdx(t) :
          /\ Selected(Incident(s, i), Now - 30 * DaySeconds + tzShift)
          /\ ~LookupOk(Incident(s, i).id)
          /\ Incident(s, i).id < Incident(t, j).id
          /\ InIssues(t, Incident(t, j).id)

(***************************************************************************)
(* C7                                                                      *)
(***************************************************************************)
\* C7: a run that lacks a credential sends no request at all; a run that
\* ended fatally (configuration, token or overview error) ended with status 1,
\* wrote no snapshot and sent no detail lookup; the snapshot is written at
\* most once, after the overview arrived and after every selected incident
\* was looked up.
C7_FatalErrors ==
    /\ (~env.tenantId \/ ~env.clientId \/ ~env.clientSecret)
          => tokenCalls = 0 /\ overviewCalls = 0 /\ NoLookupSent /\ pc \in {"start", "exit"}
    /\ pc = "exit" => exitCode = Some(1) /\ data = None /\ writes = 0 /\ NoLookupSent
    /\ ~NoLookupSent => tokenCalls = 1 /\ overviewCalls = 1 /\ value = upstreamOverview
    /\ writes <= 1
    /\ (writes = 1) = IsSome(data)
    /\ IsSome(data) =>
          /\ pc = "done" /\ exitCode = Some(0)
          /\ overviewCalls = 1 /\ value = upstreamOverview
          /\ \A s \in ServiceIdx : \A i \in IssueIdx(s) :
                Selected(Incident(s, i), Now - 30 * DaySeconds + tzShift)
                    => lookups[Incident(s, i).id] = 1

\* the overview request failed in a run whose upstream holds an active incident
C7_Witness ==
    /\ pc = "exit"
    /\ overviewCalls = 1
    /\ \E s \in ServiceIdx : \E i \in IssueIdx(s) : IsActiveClass(Incident(s, i))

(***************************************************************************)
(* C10                                                                     *)
(***************************************************************************)
\* C10: every run reaches a final state (snapshot written or fatal exit), and
\* at no time has it sent more than one detail lookup for an Active or
\* RecentlyResolved incident, or any for an Ignored one.
C10_Terminates ==
    /\ <>(pc \in {"done", "exit"})
    /\ [](\A s \in ServiceIdx : \A i \in IssueIdx(s) :
            lookups[Incident(s, i).id] <=
                (IF Selected(Incident(s, i), Now - 30 * DaySeconds + tzShift) THEN 1 ELSE 0))

\* a written snapshot after one lookup for a selected incident and none for an ignored one
C10_Witness ==
    /\ Written
    /\ \E s, t \in ServiceIdx : \E i \in IssueIdx(s), j \in IssueIdx(t) :
          /\ Selected(Incident(s, i), Now - 30 * DaySeconds + tzShift)
          /\ lookups[Incident(s, i).id] = 1
          /\ ~Selected(Incident(t, j), Now - 30 * DaySeconds + tzShift)
          /\ lookups[Incident(t, j).id] = 0

(***************************************************************************)
(* C2                                                                      *)
(***************************************************************************)
\* C2 as stated: an incident with a resolved status is in history if and
\* only if its effective end time is >= now - 30 days (30 * 24 hours); an
\* incident with any other status is never in history.
C2_AsStated ==
    Written =>
        \A s \in ServiceIdx : \A i \in IssueIdx(s) :
            LET inc == Incident(s, i) IN
            IF inc.status \in Terminal
            THEN InHistory(inc.id) <=> (EffectiveEnd(inc) >= Now - 30 * DaySeconds)
            ELSE ~InHistory(inc.id)

\* the incidents that qualify for history: resolved status, effective end
\* time at or after the cutoff, detail lookup succeeded
Qualifies(inc, from) == IsRecentClass(inc, from) /\ LookupOk(inc.id)

QualifyingIds(from) ==
    {Incident(s, i).id : <<s, i>> \in
        {<<s, i>> \in UNION {{<<s, i>> : i \in IssueIdx(s)} : s \in ServiceIdx} :
            Qualifies(Incident(s, i), from)}}

\* C2 amended: the cutoff is the instant with the same local wall-clock time
\* 30 calendar days before now (now - 30 * 24 hours plus the change of the
\* local UTC offset in between), inclusive.  An incident with a resolved
\* status that is in history has its effective end time at or after the
\* cutoff and a successful detail lookup; when at most 50 incidents qualify,
\* every incident with a resolved status, an effective end time at or after
\* the cutoff and a successful lookup is in history.  An incident with any
\* other status is never in history.
C2_RecentWindow ==
    Written =>
        \A s \in ServiceIdx : \A i \in IssueIdx(s) :
            LET inc == Incident(s, i)
                from == Now - 30 * DaySeconds + tzShift
            IN  /\ InHistory(inc.id) => Qualifies(inc, from)
                /\ (Cardinality(QualifyingIds(from)) <= 50 /\ Qualifies(inc, from))
                      => InHistory(inc.id)

\* one resolved incident ended exactly at the cutoff and is in history,
\* another ended one second earlier and is not
C2_Witness ==
    /\ Written
    /\ \E s, t \in ServiceIdx : \E i \in IssueIdx(s), j \in IssueIdx(t) :
          /\ Incident(s, i).status \in Terminal
          /\ EffectiveEnd(Incident(s, i)) = Now - 30 * DaySeconds + tzShift
          /\ InHistory(Incident(s, i).id)
          /\ Incident(t, j).status \in Terminal
          /\ EffectiveEnd(Incident(t, j)) = Now - 30 * DaySeconds + tzShift - 1
          /\ ~InHistory(Incident(t, j).id)

(***************************************************************************)
(* C3                                                                      *)
(***************************************************************************)
\* effective end time of a history entry: its endTime if present, else its lastModified
EntryEnd(h) == IF h.endTime # None THEN h.endTime[1] ELSE h.lastModified

\* the same of the detail record of incident id
DetailEnd(id) ==
    LET d == upstreamDetail[id][1]
    IN  IF d.endDateTime # None THEN d.endDateTime[1] ELSE d.lastModifiedDateTime

\* C3: in every written snapshot history has at most 50 entries, no entry
\* twice, sorted by effective end time descending; it holds all enriched
\* resolved incidents when they are at most 50, else 50 of them, and no
\* discarded one has a later effective end time than a kept one.
C3_HistoryCap ==
    Written =>
        LET h == Snapshot.history
            q == QualifyingIds(Now - 30 * DaySeconds + tzShift)
        IN  /\ Len(h) <= 50
            /\ Len(h) = (IF Cardinality(q) <= 50 THEN Cardinality(q) ELSE 50)
            /\ Cardinality(HistoryIds) = Len(h)
            /\ HistoryIds \subseteq q
            /\ \A j \in 1..Len(h) : EntryEnd(h[j]) = DetailEnd(h[j].id)
            /\ \A j \in 1..(Len(h) - 1) : EntryEnd(h[j]) >= EntryEnd(h[j + 1])
            /\ \A d \in q \ HistoryIds : \A j \in 1..Len(h) : EntryEnd(h[j]) >= DetailEnd(d)

\* more than 50 enriched resolved incidents, 50 kept, one lookup failed
C3_Witness ==
    /\ Written
    /\ Cardinality(QualifyingIds(Now - 30 * DaySeconds + tzShift)) > 50
    /\ Len(Snapshot.history) = 50
    /\ \E id \in DOMAIN upstreamDetail : ~LookupOk(id)

(***************************************************************************)
(* C4, C5, C8, C9: the records of the written snapshot against the detail  *)
(* records they were made from.                                            *)
(***************************************************************************)
\* the enriched records of the snapshot, with the mode they were enriched in
IssueRecords ==
    UNION {{Snapshot.services[s].issues[j] : j \in 1..Len(Snapshot.services[s].issues)} :
              s \in 1..Len(Snapshot.services)}

HistoryRecords == {Snapshot.history[j] : j \in 1..Len(Snapshot.history)}

Upstream(r) == upstreamDetail[r.id][1]

\* r.posts[j] is the upstream update of the position its tag names
FromUpstream(r, j) ==
    LET tag == r.posts[j].postType
        up == Upstream(r).posts
    IN  /\ tag \in 1..Len(up)
        /\ r.posts[j].createdAt = up[tag].createdDateTime
        /\ r.posts[j].content =
              (IF up[tag].description = None THEN <<>> ELSE up[tag].description[1])

Kept(r) == {r.posts[j].postType : j \in 1..Len(r.posts)}

\* C4: a record of history has at most 5 updates, all of them when the detail
\* record has at most 5, and no update left out is newer than one kept; a
\* record of an issues list has as many updates as its detail record.
C4_UpdateCaps ==
    Written =>
        /\ \A r \in HistoryRecords :
              LET up == Upstream(r).posts IN
              /\ Len(r.posts) <= 5
              /\ Len(r.posts) = (IF Len(up) <= 5 THEN Len(up) ELSE 5)
              /\ Cardinality(Kept(r)) = Len(r.posts)
              /\ \A j \in 1..Len(r.posts) : FromUpstream(r, j)
              /\ \A t \in (1..Len(up)) \ Kept(r) : \A j \in 1..Len(r.posts) :
                    up[t].createdDateTime <= r.posts[j].createdAt
        /\ \A r \in IssueRecords : Len(r.posts) = Len(Upstream(r).posts)

\* a history record made from more than 5 updates, the oldest of which came last
C4_Witness ==
    /\ Written
    /\ \E r \in HistoryRecords :
          LET up == Upstream(r).posts IN
          /\ Len(up) > 5
          /\ Len(r.posts) = 5
          /\ up[1].createdDateTime > up[Len(up)].createdDateTime

\* C5: the updates of an enriched record are distinct upstream updates (all
\* of them in an issues list), newest first, and two updates created at the
\* same time are in upstream order.
C5_UpdatesSorted ==
    Written =>
        /\ \A r \in IssueRecords \cup HistoryRecords :
              /\ Cardinality(Kept(r)) = Len(r.posts)
              /\ \A j \in 1..Len(r.posts) : FromUpstream(r, j)
              /\ \A j \in 1..(Len(r.posts) - 1) :
                    /\ r.posts[j].createdAt >= r.posts[j + 1].createdAt
                    /\ r.posts[j].createdAt = r.posts[j + 1].createdAt
                          => r.posts[j].postType < r.posts[j + 1].postType
        /\ \A r \in IssueRecords : Kept(r) = 1..Len(Upstream(r).posts)

\* a record whose updates arrived oldest first and with two of equal time
C5_Witness ==
    /\ Written
    /\ \E r \in IssueRecords :
          LET up == Upstream(r).posts IN
          /\ Len(up) >= 3
          /\ up[1].createdDateTime < up[2].createdDateTime
          /\ up[2].createdDateTime = up[3].createdDateTime

Explicit(r) == Upstream(r).impactDescription

\* the text of the last upstream update of r, <<>> when there is none
LastText(r) ==
    LET up == Upstream(r).posts
    IN  IF Len(up) = 0 \/ up[Len(up)].description = None THEN <<>>
        ELSE up[Len(up)].description[1]

Holds(text, label) == \E n \in 1..Len(text) : text[n] = label

IsText(t) == DOMAIN t = 1..Len(t)

\* C8 as stated: userImpact is a string; when the detail record carries an
\* impact description, userImpact is that description.
C8_AsStated ==
    Written =>
        \A r \in IssueRecords \cup HistoryRecords :
            /\ IsText(r.userImpact)
            /\ Explicit(r) # None => r.userImpact = Explicit(r)[1]

\* C8 amended: userImpact is a string; when the detail record carries a
\* non-empty impact description, userImpact is that description whatever the
\* update text holds; otherwise (description absent or empty) userImpact is
\* empty unless the last update holds a "User impact:" section.
C8_UserImpact ==
    Written =>
        \A r \in IssueRecords \cup HistoryRecords :
            /\ IsText(r.userImpact)
            /\ (Explicit(r) # None /\ Explicit(r)[1] # <<>>) => r.userImpact = Explicit(r)[1]
            /\ (Explicit(r) = None \/ Explicit(r)[1] = <<>>)
                  => (r.userImpact # <<>> => Holds(LastText(r), UserLabel))

\* a non-empty impact description beside a last update with a User impact section
C8_Witness ==
    /\ Written
    /\ \E r \in IssueRecords :
          /\ Explicit(r) = Some(<<Word2>>)
          /\ LastText(r) = <<UserLabel, Word1>>
          /\ r.userImpact = <<Word2>>

\* detail records that differ from d in the updates before the last one only
OtherUpdates ==
    UNION {[1..n -> ({1, 3} \X {None, Some(<<ScopeLabel, Word2, RootLabel, UserLabel, Word2>>)})] :
              n \in 0..2}

Variant(d, others) ==
    [d EXCEPT !.posts = Tagged(others \o <<<<d.posts[Len(d.posts)].createdDateTime,
                                           d.posts[Len(d.posts)].description>>>>)]

Extracted(r) == <<r.scopeOfImpact, r.rootCause, r.userImpact>>

\* C9: the extracted fields of a record are those of every detail record with
\* the same last update and impact description, whatever the other updates;
\* with no update, or a last update without content or without a recognized
\* label, scopeOfImpact and rootCause are empty and userImpact is the impact
\* description or empty, and the record is still produced.
C9_LastUpdateOnly ==
    Written =>
        /\ \A s \in ServiceIdx : \A i \in IssueIdx(s) :
              (Selected(Incident(s, i), Now - 30 * DaySeconds + tzShift)
                  /\ LookupOk(Incident(s, i).id))
                => (InAnyIssues(Incident(s, i).id) \/ InHistory(Incident(s, i).id))
        /\ \A r \in IssueRecords \cup HistoryRecords :
              /\ Len(Upstream(r).posts) > 0 =>
                    \A others \in OtherUpdates :
                        Extracted(BuildResult(Variant(Upstream(r), others), FALSE))
                            = Extracted(r)
              /\ (\A label \in {ScopeLabel, RootLabel, UserLabel} : ~Holds(LastText(r), label))
                    => /\ r.scopeOfImpact = <<>>
                       /\ r.rootCause = <<>>
                       /\ r.userImpact = (IF Explicit(r) = None THEN <<>> ELSE Explicit(r)[1])

\* a record of two updates whose first holds labels and whose last holds none
C9_Witness ==
    /\ Written
    /\ \E r \in IssueRecords :
          /\ Len(Upstream(r).posts) = 2
          /\ Upstream(r).posts[1].description # None
          /\ Upstream(r).posts[2].description = None
          /\ r.scopeOfImpact = <<>>

====
